---- MODULE Spec2Model ----
(***************************************************************************)
(* Model of the lattice graph (graph_objects.py) and of the node-tree      *)
(* elements of the Union-Find Node-Suspension decoder                      *)
(* (opensurfacesim/decoders/ufns/elements.py).                             *)
(*                                                                         *)
(* Three specifications share the module:                                  *)
(*   SpecTree   the node-tree: ns_parity and ns_delay on trees of nodes    *)
(*   SpecGraph  the operations on a built toric or planar graph            *)
(*   SpecBuild  init_toric_graph / init_planar_graph, one call per step    *)
(***************************************************************************)
EXTENDS Integers, Sequences, FiniteSets, TLC

VARIABLES
    nodes,      \* node id -> Node object (elements.py)
    last,       \* history: the last call made and the value it returned
    calls,      \* number of calls made on the node-tree
    gtype,      \* graph.type: "toric" or "planar"
    size,       \* graph.size
    S,          \* graph.S: sID -> iStab object
    B,          \* graph.B: sID -> iBoundary object
    Q,          \* graph.Q: qID -> iQubit object (with its two iEdge objects)
    C,          \* graph.C: cID -> reference to an iCluster object
    clusters,   \* the iCluster objects ever created, by reference
    added,      \* history: per iCluster object, the defect flags of the vertices added
    ops,        \* number of operations made on the graph
    pc          \* position of the graph constructor: the calls still to make

treeVars  == <<nodes, calls>>
graphVars == <<gtype, size, S, B, Q, C, clusters, added, ops>>
vars      == <<nodes, last, calls, gtype, size, S, B, Q, C, clusters, added, ops, pc>>

\* Python's None; an optional value v is held as <<v>>.
None == <<>>

\* The record of a call: its name, the node it was made on (0: none) and
\* the value returned.
Call(op, root, ret) == [op |-> op, root |-> root, ret |-> ret]

-----------------------------------------------------------------------------
(* Bounds *)

MaxNodes  == 3      \* nodes of a node-tree
MaxRadius == 1      \* node radius
MaxEdge   == 2      \* length of a node-tree edge
MaxCalls  == 3      \* calls of ns_parity / ns_delay / detach on one tree
MaxSize   == 3      \* lattice size of the graphs constructed step by step
GraphSize == 2      \* lattice size of the graphs operated on
MaxOps    == 5      \* operations on one graph
MaxErrors == 1      \* edges in state 1 at a time
MaxClusters == 1    \* cluster objects created
MaxClusterSize == 2 \* vertices added to one cluster

-----------------------------------------------------------------------------
(* Helpers *)

RECURSIVE SetToSeq(_)
\* The elements of a set of integers in increasing order.
SetToSeq(X) ==
    IF X = {} THEN <<>>
    ELSE LET m == CHOOSE x \in X : \A y \in X : x <= y
         IN <<m>> \o SetToSeq(X \ {m})

-----------------------------------------------------------------------------
(* Node-tree elements: elements.py *)

\* Node.__init__ (and Boundary/Filler.__init__, which set parity = 1).
\* `short` is the class of the node: "S"yndrome, "J"unction, "B"oundary,
\* "F"iller.  delay is held in units of 1/2 (the code's delays are multiples
\* of 0.5).
NewNode(short, radius, neighbors) ==
    [short     |-> short,
     neighbors |-> neighbors,
     root_list |-> <<>>,
     radius    |-> radius,
     parity    |-> IF short \in {"B", "F"} THEN 1 ELSE 0,
     delay     |-> 0,
     waited    |-> 0]

Shorts == {"S", "J", "B", "F"}

\* (-1) ** p for p in {0, 1}
MinusOnePow(p) == IF p % 2 = 0 THEN 1 ELSE -1

\* Twice ((a/2 - b/2) % 1): Python's % takes the sign of the divisor, so the
\* result is 0 or 0.5, also for a < b.
Frac2(a, b) == (a - b) % 2

RECURSIVE ns_parity(_, _, _)
RECURSIVE ns_parity_children(_, _, _, _, _)

\* ns_parity_children summing the children's parities instead of 1 - parity
ns_parity_children_sum_parity(ns, n, ch, i, acc) ==
    IF i > Len(ch) THEN [ns |-> ns, sum |-> acc]
    ELSE LET c   == ch[i][1]
             ns1 == ns_parity(ns, c, <<n>>)
         IN ns_parity_children(ns1, n, ch, i + 1, acc + ns1[c].parity)

\* The list comprehension of Syndrome/Junction.ns_parity: the calls on the
\* children in list order, threading the heap ns, summing 1 - returned parity.
ns_parity_children(ns, n, ch, i, acc) ==
    IF i > Len(ch) THEN [ns |-> ns, sum |-> acc]
    ELSE LET c   == ch[i][1]
             ns1 == ns_parity(ns, c, <<n>>)
         IN ns_parity_children(ns1, n, ch, i + 1, acc + (1 - ns1[c].parity))

\* ns_parity with the Junction's rule not inverted
ns_parity_junction_as_syndrome(ns, n, parent_node) ==
    IF ns[n].short \in {"B", "F"} THEN ns
    ELSE LET ch == SelectSeq(ns[n].neighbors, LAMBDA e : <<e[1]>> # parent_node)
             r  == ns_parity_children(ns, n, ch, 1, 0)
         IN [r.ns EXCEPT ![n].parity = r.sum % 2]

\* node.ns_parity(parent_node): the heap after the call (the call returns
\* the node's parity in that heap).
ns_parity(ns, n, parent_node) ==
    IF ns[n].short \in {"B", "F"} THEN ns
    ELSE LET ch == SelectSeq(ns[n].neighbors, LAMBDA e : <<e[1]>> # parent_node)
             r  == ns_parity_children(ns, n, ch, 1, 0)
             p  == IF ns[n].short = "S" THEN r.sum % 2 ELSE 1 - (r.sum % 2)
         IN [r.ns EXCEPT ![n].parity = p]

RECURSIVE ns_delay(_, _, _, _)
RECURSIVE ns_delay_children(_, _, _, _, _)

\* The loop of Node.ns_delay over self.neighbors.
ns_delay_children(ns, n, parent, i, min_delay) ==
    IF i > Len(ns[n].neighbors) THEN [ns |-> ns, min_delay |-> min_delay]
    ELSE LET e == ns[n].neighbors[i]
         IN IF parent # None /\ e[1] = parent[1]
            THEN ns_delay_children(ns, n, parent, i + 1, min_delay)
            ELSE LET r == ns_delay(ns, e[1], <<n, e[2]>>, min_delay)
                 IN ns_delay_children(r.ns, n, parent, i + 1, r.min_delay)

\* ns_delay taking the sign from the node's own parity
ns_delay_own_parity(ns, n, parent, min_delay) ==
    LET ns0 == [ns EXCEPT ![n].root_list = <<>>, ![n].waited = 0]
        d   == ns0[parent[1]].delay
               + Frac2(ns0[n].radius, ns0[parent[1]].radius)
               - 2 * parent[2] * MinusOnePow(ns0[n].parity)
        ns1 == IF parent # None THEN [ns0 EXCEPT ![n].delay = d] ELSE ns0
        m1  == IF parent # None /\ (min_delay = None \/ d < min_delay[1])
               THEN <<d>> ELSE min_delay
    IN ns_delay_children(ns1, n, parent, 1, m1)

\* node.ns_delay(parent, min_delay): parent is None or <<parent node, edge>>,
\* min_delay is None or <<value>>.  The heap after the call and the value
\* returned.
ns_delay(ns, n, parent, min_delay) ==
    LET ns0 == [ns EXCEPT ![n].root_list = <<>>, ![n].waited = 0]
        d   == ns0[parent[1]].delay
               + Frac2(ns0[n].radius, ns0[parent[1]].radius)
               - 2 * parent[2] * MinusOnePow(ns0[parent[1]].parity)
        ns1 == IF parent # None THEN [ns0 EXCEPT ![n].delay = d] ELSE ns0
        m1  == IF parent # None /\ (min_delay = None \/ d < min_delay[1])
               THEN <<d>> ELSE min_delay
    IN ns_delay_children(ns1, n, parent, 1, m1)

-----------------------------------------------------------------------------
(* The node-trees the decoder hands to ns_parity / ns_delay *)

\* The neighbors list of node i in the tree in which node k > 1 was attached
\* to node par[k] by an edge of length len[k], in the order of attachment.
TreeNeighbors(n, par, len, i) ==
    LET up   == IF i > 1 THEN << <<par[i], len[i]>> >> ELSE <<>>
        kids == SetToSeq({k \in 2..n : par[k] = i})
    IN up \o [j \in 1..Len(kids) |-> <<kids[j], len[kids[j]]>>]

\* No graph is constructed beside the node-tree.
InitGraphStub ==
    /\ gtype = "none" /\ size = 0 /\ S = <<>> /\ B = <<>> /\ Q = <<>>
    /\ C = <<>> /\ clusters = <<>> /\ added = <<>> /\ ops = 0 /\ pc = <<>>

InitTree ==
    /\ \E n \in 1..MaxNodes :
         \E par \in [2..n -> 1..n] :
         \E len \in [2..n -> 1..MaxEdge] :
         \E sh  \in [1..n -> Shorts] :
         \E rad \in [1..n -> 0..MaxRadius] :
            /\ \A k \in 2..n : par[k] < k
            /\ nodes = [i \in 1..n |->
                          NewNode(sh[i], rad[i], TreeNeighbors(n, par, len, i))]
    /\ last = Call("init", 0, None)
    /\ calls = 0
    /\ InitGraphStub

\* root.ns_parity()
call_ns_parity(n) ==
    /\ calls < MaxCalls
    /\ nodes' = ns_parity(nodes, n, None)
    /\ last' = Call("ns_parity", n, <<nodes'[n].parity>>)
    /\ calls' = calls + 1

\* root.ns_delay()
call_ns_delay(n) ==
    /\ calls < MaxCalls
    /\ LET r == ns_delay(nodes, n, None, None)
       IN /\ nodes' = r.ns
          /\ last' = Call("ns_delay", n, r.min_delay)
    /\ calls' = calls + 1

\* The decoder detaches node n from the tree: n leaves the neighbors list of
\* every other node and its own list is emptied.
detach(n) ==
    /\ calls < MaxCalls
    /\ nodes[n].neighbors # <<>>
    /\ nodes' = [m \in DOMAIN nodes |->
                   [nodes[m] EXCEPT !.neighbors =
                      IF m = n THEN <<>>
                      ELSE SelectSeq(nodes[m].neighbors, LAMBDA e : e[1] # n)]]
    /\ last' = Call("detach", n, None)
    /\ calls' = calls + 1

-----------------------------------------------------------------------------
(* Lattice graph: graph_objects.py *)

\* iGraph.__init__: self.wind
wind == <<"u", "d", "l", "r">>

\* iEdge.__init__
iEdge(type) ==
    [type     |-> type,
     cluster  |-> None,
     state    |-> 0,
     support  |-> 0,
     peeled   |-> 0,
     matching |-> 0]

\* iQubit.__init__: qID = <<y, x, orientation>>
iQubit(qID) ==
    [qID     |-> qID,
     erasure |-> 0,
     VXE     |-> iEdge(<<0, qID[3]>>),
     PZE     |-> iEdge(<<1, 1 - qID[3]>>)]

\* iStab.__init__ (iBoundary inherits it): sID = <<ertype, y, x>>.
\* neighbors maps a direction to <<vertex reference, edge reference>>; a
\* vertex reference is <<"S" or "B", sID>>, an edge reference is
\* <<qID, "VXE" or "PZE">>.
iStab(sID) ==
    [sID       |-> sID,
     neighbors |-> <<>>,
     state     |-> FALSE,
     cluster   |-> None,
     tree      |-> "False"]

\* iCluster.__init__; self is the reference of the new object.
iCluster(cID, self) ==
    [cID      |-> cID,
     size     |-> 0,
     parity   |-> 0,
     parent   |-> self,
     childs   |-> <<<<>>, <<>>>>,
     boundary |-> <<<<>>, <<>>>>,
     bucket   |-> 0,
     support  |-> 0]

\* d[k] = v on a dictionary d
Put(d, k, v) == [x \in (DOMAIN d) \cup {k} |-> IF x = k THEN v ELSE d[x]]

\* The graph object as a record of its dictionaries.
Graph(s, b, q) == [S |-> s, B |-> b, Q |-> q]

EmptyGraph == Graph(<<>>, <<>>, <<>>)

\* v.neighbors[dir] = val, for the vertex object that the reference v names
SetNeighbor(g, v, dir, val) ==
    LET upd(d) == [d EXCEPT ![v[2]].neighbors = Put(@, dir, val)]
    IN IF v[1] = "S" THEN [g EXCEPT !.S = upd(@)] ELSE [g EXCEPT !.B = upd(@)]

\* iGraph.add_stab
add_stab(g, sID) == [g EXCEPT !.S = Put(@, sID, iStab(sID))]

\* iGraph.add_boundary
add_boundary(g, sID) == [g EXCEPT !.B = Put(@, sID, iStab(sID))]

\* add_edge handing the left vertex the other sub-edge
add_edge_wrong_edge(g, qID, VL, VR, VU, VD) ==
    LET E1 == IF qID[3] = 0 THEN <<qID, "VXE">> ELSE <<qID, "PZE">>
        E2 == IF qID[3] = 0 THEN <<qID, "PZE">> ELSE <<qID, "VXE">>
        g0 == [g EXCEPT !.Q = Put(@, qID, iQubit(qID))]
        g1 == SetNeighbor(g0, VL, "r", <<VR, E1>>)
        g2 == SetNeighbor(g1, VR, "l", <<VL, E2>>)
        g3 == SetNeighbor(g2, VU, "d", <<VD, E2>>)
    IN SetNeighbor(g3, VD, "u", <<VU, E2>>)

\* iGraph.add_edge
add_edge(g, qID, VL, VR, VU, VD) ==
    LET E1 == IF qID[3] = 0 THEN <<qID, "VXE">> ELSE <<qID, "PZE">>
        E2 == IF qID[3] = 0 THEN <<qID, "PZE">> ELSE <<qID, "VXE">>
        g0 == [g EXCEPT !.Q = Put(@, qID, iQubit(qID))]
        g1 == SetNeighbor(g0, VL, "r", <<VR, E1>>)
        g2 == SetNeighbor(g1, VR, "l", <<VL, E1>>)
        g3 == SetNeighbor(g2, VU, "d", <<VD, E2>>)
    IN SetNeighbor(g3, VD, "u", <<VU, E2>>)

\* A call of the constructor's body on the graph g.
Exec(g, call) ==
    CASE call.f = "add_stab"     -> add_stab(g, call.sID)
      [] call.f = "add_boundary" -> add_boundary(g, call.sID)
      [] call.f = "add_edge"     ->
            add_edge(g, call.qID, call.VL, call.VR, call.VU, call.VD)

StabCall(sID)  == [f |-> "add_stab", sID |-> sID]
BoundCall(sID) == [f |-> "add_boundary", sID |-> sID]
EdgeCall(qID, VL, VR, VU, VD) ==
    [f |-> "add_edge", qID |-> qID, VL |-> VL, VR |-> VR, VU |-> VU, VD |-> VD]

RECURSIVE Flatten(_)
Flatten(ss) == IF ss = <<>> THEN <<>> ELSE Head(ss) \o Flatten(Tail(ss))

\* for y in range(size): for x in range(size): the k-th iteration's y and x
LoopY(sz, k) == (k - 1) \div sz
LoopX(sz, k) == (k - 1) % sz

\* init_toric_graph(size): the calls it makes, in order
ToricCalls(sz) ==
    LET stabs(ertype) ==
            [k \in 1..(sz * sz) |->
                StabCall(<<ertype, LoopY(sz, k), LoopX(sz, k)>>)]
        edges ==
            Flatten([k \in 1..(sz * sz) |->
                LET y == LoopY(sz, k)
                    x == LoopX(sz, k)
                IN
                << EdgeCall(<<y, x, 0>>,
                            <<"S", <<0, y, x>>>>, <<"S", <<0, y, (x + 1) % sz>>>>,
                            <<"S", <<1, (y - 1) % sz, x>>>>, <<"S", <<1, y, x>>>>),
                   EdgeCall(<<y, x, 1>>,
                            <<"S", <<1, y, (x - 1) % sz>>>>, <<"S", <<1, y, x>>>>,
                            <<"S", <<0, y, x>>>>, <<"S", <<0, (y + 1) % sz, x>>>>) >>])
    IN stabs(0) \o stabs(1) \o edges

\* init_planar_graph(size): the calls it makes, in order
PlanarCalls(sz) ==
    LET verts ==
            Flatten([k \in 1..sz |->
                LET yx == k - 1 IN
                Flatten([j \in 1..(sz - 1) |->
                    LET xy == j - 1 IN
                    << StabCall(<<0, yx, xy + 1>>), StabCall(<<1, xy, yx>>) >>])
                \o << BoundCall(<<0, yx, 0>>), BoundCall(<<0, yx, sz>>),
                      BoundCall(<<1, -1, yx>>), BoundCall(<<1, sz - 1, yx>>) >>])
        edges ==
            Flatten([k \in 1..(sz * sz) |->
                LET y  == LoopY(sz, k)
                    x  == LoopX(sz, k)
                    VL == IF x = 0 THEN <<"B", <<0, y, x>>>> ELSE <<"S", <<0, y, x>>>>
                    VR == IF x # 0 /\ x = sz - 1 THEN <<"B", <<0, y, x + 1>>>>
                          ELSE <<"S", <<0, y, x + 1>>>>
                    VU == IF y = 0 THEN <<"B", <<1, y - 1, x>>>>
                          ELSE <<"S", <<1, y - 1, x>>>>
                    VD == IF y # 0 /\ y = sz - 1 THEN <<"B", <<1, y, x>>>>
                          ELSE <<"S", <<1, y, x>>>>
                IN << EdgeCall(<<y, x, 0>>, VL, VR, VU, VD) >>
                   \o IF y # sz - 1 /\ x # sz - 1
                      THEN << EdgeCall(<<y, x + 1, 1>>,
                                       <<"S", <<1, y, x>>>>, <<"S", <<1, y, x + 1>>>>,
                                       <<"S", <<0, y, x + 1>>>>,
                                       <<"S", <<0, y + 1, x + 1>>>>) >>
                      ELSE <<>>])
    IN verts \o edges

RECURSIVE Run(_, _)
\* The graph after the calls of a constructor.  Each call is evaluated on
\* the graph the calls before it have built (the test g1 = g1 makes the
\* evaluation strict, call by call).
Run(g, cs) ==
    IF cs = <<>> THEN g
    ELSE LET g1 == Exec(g, Head(cs))
         IN IF g1 = g1 THEN Run(g1, Tail(cs)) ELSE g

-----------------------------------------------------------------------------
(* Construction of the graph, one call of the constructor per step *)

InitTreeStub ==
    /\ nodes = <<>>
    /\ last = Call("init", 0, None)
    /\ calls = 0

InitBuild ==
    /\ \E t \in {"toric", "planar"} : \E sz \in 1..MaxSize :
         /\ t = "planar" => sz >= 2   \* init_planar_graph(1) raises KeyError
         /\ gtype = t
         /\ size = sz
         /\ pc = IF t = "toric" THEN ToricCalls(sz) ELSE PlanarCalls(sz)
    /\ S = <<>> /\ B = <<>> /\ Q = <<>>
    /\ C = <<>> /\ clusters = <<>> /\ added = <<>> /\ ops = 0
    /\ InitTreeStub

\* graph.add_stab(sID), as called by the constructor
build_add_stab ==
    /\ pc # <<>>
    /\ Head(pc).f = "add_stab"
    /\ LET g == add_stab(Graph(S, B, Q), Head(pc).sID)
       IN S' = g.S /\ B' = g.B /\ Q' = g.Q
    /\ pc' = Tail(pc)
    /\ last' = Call(Head(pc).f, 0, None)
    /\ UNCHANGED <<gtype, size, C, clusters, added, ops, treeVars>>

\* graph.add_boundary(sID), as called by the constructor
build_add_boundary ==
    /\ pc # <<>>
    /\ Head(pc).f = "add_boundary"
    /\ LET g == add_boundary(Graph(S, B, Q), Head(pc).sID)
       IN S' = g.S /\ B' = g.B /\ Q' = g.Q
    /\ pc' = Tail(pc)
    /\ last' = Call(Head(pc).f, 0, None)
    /\ UNCHANGED <<gtype, size, C, clusters, added, ops, treeVars>>

\* graph.add_edge(qID, VL, VR, VU, VD), as called by the constructor
build_add_edge ==
    /\ pc # <<>>
    /\ Head(pc).f = "add_edge"
    /\ LET c == Head(pc)
           g == add_edge(Graph(S, B, Q), c.qID, c.VL, c.VR, c.VU, c.VD)
       IN S' = g.S /\ B' = g.B /\ Q' = g.Q
    /\ pc' = Tail(pc)
    /\ last' = Call(Head(pc).f, 0, None)
    /\ UNCHANGED <<gtype, size, C, clusters, added, ops, treeVars>>

NextBuild ==
    \/ build_add_stab
    \/ build_add_boundary
    \/ build_add_edge

SpecBuild == InitBuild /\ [][NextBuild]_vars

-----------------------------------------------------------------------------
(* Operations on a built graph *)

VertexRefs == {<<"S", k>> : k \in DOMAIN S} \cup {<<"B", k>> : k \in DOMAIN B}
EdgeRefs   == (DOMAIN Q) \X {"VXE", "PZE"}

\* The vertex object / edge object that a reference names
Vertex(v) == IF v[1] = "S" THEN S[v[2]] ELSE B[v[2]]
Edge(e)   == Q[e[1]][e[2]]

InitGraph ==
    /\ \E t \in {"toric", "planar"} :
         LET g == Run(EmptyGraph,
                      IF t = "toric" THEN ToricCalls(GraphSize)
                      ELSE PlanarCalls(GraphSize))
         IN gtype = t /\ S = g.S /\ B = g.B /\ Q = g.Q
    /\ size = GraphSize
    /\ pc = <<>>
    /\ C = <<>> /\ clusters = <<>> /\ added = <<>> /\ ops = 0
    /\ InitTreeStub

Step(op) == ops < MaxOps /\ ops' = ops + 1 /\ last' = Call(op, 0, None)

\* The error supplier flips the state of one edge.
flip(e) ==
    /\ Step("flip")
    /\ Edge(e).state = 0 =>
          Cardinality({x \in EdgeRefs : Edge(x).state # 0}) < MaxErrors
    /\ Q' = [Q EXCEPT ![e[1]][e[2]].state = 1 - @]
    /\ UNCHANGED <<gtype, size, S, B, C, clusters, added>>

RECURSIVE measure_dirs(_, _, _)
\* The inner loop of measure_stab on one stabilizer, from direction i on.
measure_dirs(stab, q, i) ==
    IF i > Len(wind) THEN stab
    ELSE LET dir == wind[i]
         IN IF dir \in DOMAIN stab.neighbors
               /\ q[stab.neighbors[dir][2][1]][stab.neighbors[dir][2][2]].state # 0
            THEN measure_dirs([stab EXCEPT !.state = ~@], q, i + 1)
            ELSE measure_dirs(stab, q, i + 1)

\* iGraph.measure_stab
measure_stab ==
    /\ Step("measure_stab")
    /\ S' = [k \in DOMAIN S |-> measure_dirs(S[k], Q, 1)]
    /\ UNCHANGED <<gtype, size, B, Q, C, clusters, added>>

\* iGraph.add_cluster
add_cluster(cID) ==
    /\ Step("add_cluster")
    /\ Len(clusters) < MaxClusters
    /\ LET self == Len(clusters) + 1
       IN /\ clusters' = Append(clusters, iCluster(cID, self))
          /\ C' = Put(C, cID, self)
    /\ added' = Append(added, <<>>)
    /\ UNCHANGED <<gtype, size, S, B, Q>>

\* iCluster.add_stab, on the cluster object c and the vertex v.  added
\* records, per cluster, the defect flag of every vertex added.
cluster_add_stab(c, v) ==
    /\ Step("add_stab")
    /\ clusters[c].size < MaxClusterSize
    /\ clusters' = [clusters EXCEPT
                      ![c].size = @ + 1,
                      ![c].parity = IF Vertex(v).state THEN @ + 1 ELSE @]
    /\ IF v[1] = "S"
       THEN S' = [S EXCEPT ![v[2]].cluster = <<c>>] /\ B' = B
       ELSE B' = [B EXCEPT ![v[2]].cluster = <<c>>] /\ S' = S
    /\ added' = [added EXCEPT ![c] = Append(@, Vertex(v).state)]
    /\ UNCHANGED <<gtype, size, Q, C>>

\* The decoder takes edge e into cluster c: the iteration fields of the
\* edge are written by the clustering and peeling passes.
decode_edge(e, c) ==
    /\ Step("decode_edge")
    /\ Edge(e).cluster = None
    /\ Q' = [Q EXCEPT ![e[1]][e[2]] =
               [@ EXCEPT !.cluster = <<c>>, !.support = 1,
                         !.peeled = 1, !.matching = 1]]
    /\ UNCHANGED <<gtype, size, S, B, C, clusters, added>>

\* iEdge.reset
iEdge_reset(e) ==
    [e EXCEPT !.cluster = None, !.state = 0, !.support = 0,
              !.peeled = 0, !.matching = 0]

\* grow_reset clearing what reset clears
iEdge_grow_reset_as_reset(e) ==
    [e EXCEPT !.cluster = None, !.state = 0, !.support = 0,
              !.peeled = 0, !.matching = 0]

\* iEdge.grow_reset
iEdge_grow_reset(e) ==
    [e EXCEPT !.cluster = None, !.support = 0, !.peeled = 0]

\* iQubit.reset
iQubit_reset(q) ==
    [q EXCEPT !.erasure = 0, !.VXE = iEdge_reset(@), !.PZE = iEdge_reset(@)]

\* iQubit.grow_reset
iQubit_grow_reset(q) ==
    [q EXCEPT !.VXE = iEdge_grow_reset(@), !.PZE = iEdge_grow_reset(@)]

\* iStab.reset
iStab_reset(s) ==
    [s EXCEPT !.state = FALSE, !.cluster = None, !.tree = "False"]

\* iStab.grow_reset
iStab_grow_reset(s) ==
    [s EXCEPT !.cluster = None, !.tree = "None"]

\* iGraph.reset
reset ==
    /\ Step("reset")
    /\ C' = <<>>
    /\ Q' = [k \in DOMAIN Q |-> iQubit_reset(Q[k])]
    /\ S' = [k \in DOMAIN S |-> iStab_reset(S[k])]
    /\ UNCHANGED <<gtype, size, B, clusters, added>>

\* iGraph.grow_reset
grow_reset ==
    /\ Step("grow_reset")
    /\ C' = <<>>
    /\ Q' = [k \in DOMAIN Q |-> iQubit_grow_reset(Q[k])]
    /\ S' = [k \in DOMAIN S |-> iStab_grow_reset(S[k])]
    /\ UNCHANGED <<gtype, size, B, clusters, added>>

NextGraph ==
    \/ \E e \in EdgeRefs : flip(e) /\ UNCHANGED <<treeVars, pc>>
    \/ measure_stab /\ UNCHANGED <<treeVars, pc>>
    \/ \E cID \in 0..(MaxClusters - 1) : add_cluster(cID) /\ UNCHANGED <<treeVars, pc>>
    \/ \E cID \in DOMAIN C : \E v \in VertexRefs :
          cluster_add_stab(C[cID], v) /\ UNCHANGED <<treeVars, pc>>
    \/ \E e \in EdgeRefs : \E cID \in DOMAIN C :
          decode_edge(e, C[cID]) /\ UNCHANGED <<treeVars, pc>>
    \/ reset /\ UNCHANGED <<treeVars, pc>>
    \/ grow_reset /\ UNCHANGED <<treeVars, pc>>

SpecGraph == InitGraph /\ [][NextGraph]_vars

-----------------------------------------------------------------------------
(* The node-tree specification *)

NextTree ==
    \/ \E n \in DOMAIN nodes : call_ns_parity(n) /\ UNCHANGED <<graphVars, pc>>
    \/ \E n \in DOMAIN nodes : call_ns_delay(n) /\ UNCHANGED <<graphVars, pc>>
    \/ \E n \in DOMAIN nodes : detach(n) /\ UNCHANGED <<graphVars, pc>>

SpecTree == InitTree /\ [][NextTree]_vars

-----------------------------------------------------------------------------
(* The rooted tree, read off the neighbors lists *)

Nbrs(n) == {nodes[n].neighbors[i][1] : i \in DOMAIN nodes[n].neighbors}

RECURSIVE Level(_, _)
\* The nodes at distance k from r
Level(r, k) ==
    IF k = 0 THEN {r}
    ELSE (UNION {Nbrs(m) : m \in Level(r, k - 1)})
         \ (IF k >= 2 THEN Level(r, k - 2) ELSE {})

TreeOf(r) == UNION {Level(r, k) : k \in 0..Cardinality(DOMAIN nodes)}
Depth(r, n) == CHOOSE k \in 0..Cardinality(DOMAIN nodes) : n \in Level(r, k)
ParentOf(r, n) == CHOOSE m \in Nbrs(n) : Depth(r, m) = Depth(r, n) - 1
ChildrenOf(r, n) == {m \in Nbrs(n) : Depth(r, m) = Depth(r, n) + 1}
EdgeLength(n, m) ==
    nodes[n].neighbors[CHOOSE i \in DOMAIN nodes[n].neighbors :
                          nodes[n].neighbors[i][1] = m][2]

RECURSIVE Ancestors(_, _)
\* The proper ancestors of n in the tree rooted at r
Ancestors(r, n) ==
    IF n = r THEN {} ELSE {ParentOf(r, n)} \cup Ancestors(r, ParentOf(r, n))

\* The nodes on which the recursion from r calls ns_parity with a
\* recursing caller: no Boundary or Filler node lies above them.
Visited(r) ==
    {n \in TreeOf(r) : \A a \in Ancestors(r, n) : nodes[a].short \notin {"B", "F"}}

RECURSIVE InvSum(_)
\* sum over the nodes c of X of (1 - parity of c)
InvSum(X) ==
    IF X = {} THEN 0
    ELSE LET x == CHOOSE y \in X : TRUE
         IN (1 - nodes[x].parity) + InvSum(X \ {x})

\* sum over the children of n of (1 - child parity)
ChildSum(r, n) == InvSum(ChildrenOf(r, n))

\* The rule of the node's variant
Rule(r, n) ==
    CASE nodes[n].short = "S" -> nodes[n].parity = ChildSum(r, n) % 2
      [] nodes[n].short = "J" -> nodes[n].parity = 1 - (ChildSum(r, n) % 2)
      [] OTHER                -> nodes[n].parity = 1

-----------------------------------------------------------------------------
(* Claims on the node-tree, under SpecTree *)

SetMin(X) == CHOOSE x \in X : \A y \in X : x <= y

\* C3: the value ns_delay returns on the root is the minimum of delay over
\* all nodes of the tree, the root included.
C3_ReturnsTreeMinimum ==
    last.op = "ns_delay" =>
        LET ds == {nodes[n].delay : n \in TreeOf(last.root)}
        IN last.ret = <<SetMin(ds)>>

\* C4 as stated: the parity ns_parity computes at the root is the number of
\* Syndrome nodes of the tree modulo 2.
C4_RootParityIsSyndromeCount ==
    last.op = "ns_parity" =>
        nodes[last.root].parity =
            Cardinality({n \in TreeOf(last.root) : nodes[n].short = "S"}) % 2

\* C4 amended: the parity ns_parity computes at the root is the complement
\* of the number, modulo 2, of Syndrome nodes that the recursion reaches.
C4_RootParityIsComplement ==
    last.op = "ns_parity" =>
        nodes[last.root].parity =
            1 - (Cardinality({n \in Visited(last.root) : nodes[n].short = "S"}) % 2)

C4_Witness ==
    /\ last.op = "ns_parity"
    /\ Visited(last.root) = DOMAIN nodes
    /\ Cardinality({n \in DOMAIN nodes : nodes[n].short = "S"}) = 2
    /\ Cardinality({n \in DOMAIN nodes : nodes[n].short = "J"}) = 1

\* C9: after ns_delay with no parent on a node without neighbors, the
\* node's delay is 0.
C9_SingleNodeDelayZero ==
    (last.op = "ns_delay" /\ nodes[last.root].neighbors = <<>>) =>
        nodes[last.root].delay = 0

-----------------------------------------------------------------------------
(* Claims on the graph operations, under SpecGraph *)

\* The number of directions of the stabilizer whose edge has its state set
ActiveDirs(stab) ==
    Cardinality({d \in DOMAIN stab.neighbors : Edge(stab.neighbors[d][2]).state # 0})

\* C5: after measure_stab every stabilizer of S has state True iff an odd
\* number of its incident edges (over its directions) have their state set.
C5_StateIsXorOfEdges ==
    last.op = "measure_stab" =>
        \A k \in DOMAIN S : S[k].state <=> (ActiveDirs(S[k]) % 2 = 1)

DefaultVertex(v) == v.state = FALSE /\ v.cluster = None /\ v.tree = "False"
DefaultEdge(e) ==
    /\ e.cluster = None /\ e.state = 0 /\ e.support = 0
    /\ e.peeled = 0 /\ e.matching = 0

\* C6: after reset the graph has no clusters and every stabilizer, every
\* boundary vertex and every sub-edge is in its default iteration state.
C6_ResetRestoresDefaults ==
    last.op = "reset" =>
        /\ C = <<>>
        /\ \A k \in DOMAIN S : DefaultVertex(S[k])
        /\ \A k \in DOMAIN B : DefaultVertex(B[k])
        /\ \A e \in EdgeRefs : DefaultEdge(Edge(e))

\* C7: a cluster's size is the number of vertices added to it and its
\* parity is the number of added defect vertices modulo 2.
C7_ParityIsDefectCountMod2 ==
    \A c \in DOMAIN clusters :
        /\ clusters[c].size = Len(added[c])
        /\ clusters[c].parity =
              Cardinality({i \in DOMAIN added[c] : added[c][i]}) % 2

Wiring(d) == [k \in DOMAIN d |-> <<d[k].sID, d[k].neighbors>>]
EdgeTypes == [e \in EdgeRefs |-> Edge(e).type]

-----------------------------------------------------------------------------
(* Claims on the constructed graphs, under SpecBuild *)

opposite(d) ==
    CASE d = "u" -> "d" [] d = "d" -> "u" [] d = "l" -> "r" [] d = "r" -> "l"

\* C10: in a graph built by init_toric_graph or init_planar_graph, if
\* v.neighbors[d] = (w, e) then w.neighbors[opposite(d)] = (v, e), v and w
\* have the same check type, and e is the VXE sub-edge for type 0 and the PZE
\* sub-edge for type 1; in the toric graph every vertex has four directions.
C10_DirectionsConsistent ==
    pc = <<>> =>
        \A v \in VertexRefs :
            /\ \A d \in DOMAIN Vertex(v).neighbors :
                  LET w == Vertex(v).neighbors[d][1]
                      e == Vertex(v).neighbors[d][2]
                  IN /\ w \in VertexRefs
                     /\ e \in EdgeRefs
                     /\ opposite(d) \in DOMAIN Vertex(w).neighbors
                     /\ Vertex(w).neighbors[opposite(d)] = <<v, e>>
                     /\ Vertex(w).sID[1] = Vertex(v).sID[1]
                     /\ e[2] = (IF Vertex(v).sID[1] = 0 THEN "VXE" ELSE "PZE")
            /\ DOMAIN Vertex(v).neighbors \subseteq {"u", "d", "l", "r"}
            /\ gtype = "toric" => DOMAIN Vertex(v).neighbors = {"u", "d", "l", "r"}

C10_Witness ==
    /\ pc = <<>>
    /\ gtype = "planar"
    /\ size = 3
    /\ \E k \in DOMAIN B : B[k].neighbors # <<>>
    /\ \E k \in DOMAIN S : DOMAIN S[k].neighbors = {"u", "d", "l", "r"}

====
